---- MODULE Spec2Model ----
(***************************************************************************)
(* Model of the statsphere Ballon d'Or scripts.                            *)
(*                                                                         *)
(*   backend/ml/train_ballondor.py    trainer of the service-facing variant*)
(*   backend/ml/predict_ballondor.py  service-facing predictor (stdin/JSON)*)
(*   ml/features.py                   feature deriver                      *)
(*   ml/train.py, ml/predict.py       standalone trainer and predictor     *)
(*                                                                         *)
(* Every script is a straight-line batch program.  A run is modelled as a  *)
(* sequence of steps of one process (pc), runs follow each other (the      *)
(* scripts are never run concurrently), and the files they share live in   *)
(* the file-system variables.                                              *)
(*                                                                         *)
(* Numbers: statistics are naturals; rates, weights and scores are kept in *)
(* hundredths (1.0 is 100), predictions of a model in thousandths.         *)
(***************************************************************************)
EXTENDS Integers, Sequences, FiniteSets, TLC

\* ------------------------------------------------------------------ bounds
MaxPlayers == 2      \* longest players batch on standard input
MaxClock == 1        \* latest time the clock reaches
MaxRows == 2         \* longest players.csv table of the standalone variant
MaxCount == 12       \* largest goals/assists count given to rate-per-90

\* ------------------------------------------------------------------ state
VARIABLES
    modelFile,      \* model/ballondor_model.pkl
    metaFile,       \* model/meta.json
    now,            \* the clock datetime.now() reads
    variant,        \* the scripts this behaviour runs: "backend", "ml", "calls"
    run,            \* the script running: "none", "train", "predict"
    pc,             \* its position
    csv,            \* trainer: ballondor_train.csv as read
    stdin,          \* predictor: the document on standard input
    model,          \* the model object (fitted or loaded)
    meta,           \* predictor: meta.json as loaded (its tokens)
    predFEATURES,   \* predictor: FEATURES = meta["features"]
    players,        \* predictor: data.get("players", [])
    rows,           \* predictor: rows built so far
    ids,            \* predictor: ids collected so far
    df,             \* predictor: pd.DataFrame(rows, columns=FEATURES)
    predictions,    \* predictor: model.predict(df)
    stdout,         \* what the run printed
    stderr,         \* the exception an unhandled failure ends with, "" if none
    exitCode,       \* exit status, -1 while running
    startFiles,     \* the two artifact files as the run found them
    lastRun,        \* the last finished predictor run: its inputs and outputs
    playersCsv,     \* ml: data/raw/players.csv (read only)
    mlModelPkl,     \* ml: model.pkl
    mlColsPkl,      \* ml: feature_columns.pkl
    processedCsv,   \* ml: data/processed/players_with_features.csv
    predictionsCsv, \* ml: data/processed/predictions.csv
    data,           \* ml: the DataFrame `data`
    loadedColumns,  \* ml predictor: feature_columns as unpickled
    X,              \* ml: X = data[feature_columns]
    argCount,       \* calls: the goals/assists count passed in
    argMinutes,     \* calls: the minutes_played passed in
    argLeague,      \* calls: the league name passed in
    resGoals,       \* calls: what calculate_goals_per_90 returned
    resAssists,     \* calls: what calculate_assists_per_90 returned
    resWeight       \* calls: what get_league_weight returned

fsVars == << modelFile, metaFile >>
locals == << csv, stdin, model, meta, predFEATURES, players, rows, ids, df, predictions >>
outVars == << stdout, stderr, exitCode >>
vars == << modelFile, metaFile, now, variant, run, pc, csv, stdin, model, meta, predFEATURES,
           players, rows, ids, df, predictions, stdout, stderr, exitCode, startFiles,
           lastRun, playersCsv, mlModelPkl, mlColsPkl, processedCsv, predictionsCsv,
           data, loadedColumns, X, argCount, argMinutes, argLeague, resGoals,
           resAssists, resWeight >>
mlFiles == << mlModelPkl, mlColsPkl, processedCsv, predictionsCsv >>
mlVars == << playersCsv, mlModelPkl, mlColsPkl, processedCsv, predictionsCsv, data,
             loadedColumns, X >>
callVars == << argCount, argMinutes, argLeague, resGoals, resAssists, resWeight >>
backendVars == << modelFile, metaFile, csv, stdin, meta, predFEATURES, players, rows, ids,
                  df, startFiles, lastRun >>

\* ------------------------------------------------------------- JSON values
\* A JSON scalar as Python's json module yields it: t is the Python type.
JV(t, n, s) == [t |-> t, n |-> n, s |-> s]
JNum(n) == JV("num", n, "")
JStr(s) == JV("str", 0, s)
JBool(b) == JV("bool", IF b THEN 1 ELSE 0, "")
JNull == JV("null", 0, "")
JPunct(s) == JV("punct", 0, s)

\* first index of x in s, 0 when absent
IndexOf(s, x) ==
    IF \E i \in 1..Len(s) : s[i] = x
    THEN CHOOSE i \in 1..Len(s) : s[i] = x /\ \A j \in 1..(i - 1) : s[j] # x
    ELSE 0

\* ------------------------------------------ backend/ml/train_ballondor.py
\* the columns the model is fit on, in this order
FEATURES ==
    << "goals", "assists", "minutes", "avg_rating", "shots_on_target",
       "key_passes", "dribbles_completed", "tackles", "interceptions",
       "clean_sheets", "team_trophies", "ucl_stage_score", "league_strength" >>

TARGET == "ballondor_score"

N_ESTIMATORS == 100
MAX_DEPTH == 10

\* ballondor_train.csv as a run of the trainer finds it
CsvFiles ==
    {[exists |-> FALSE, nrows |-> 0]}
        \cup {[exists |-> TRUE, nrows |-> n] : n \in {1, 5}}

\* train_test_split(test_size=0.2): n_test = ceil(0.2 * n), n_train = n - n_test
TestRows(n) == (n + 4) \div 5
TrainRows(n) == n - TestRows(n)

\* The fitted RandomForestRegressor.  The forest itself is opaque: what the
\* artifact keeps is the columns it was fit on (feature_names_in_) and the
\* training rows that determine its trees.
FitModel(cols, trainCsv) ==
    [kind |-> "fitted", features |-> cols, fitRows |-> TrainRows(trainCsv.nrows)]

NoModelFile == [kind |-> "absent", features |-> <<>>, fitRows |-> 0]
GarbageModelFile == [kind |-> "garbage", features |-> <<>>, fitRows |-> 0]

\* mean_absolute_error / r2_score on the held-out rows, rounded to 4 places
\* (in ten-thousandths); a function of the trainCsv only (random_state is fixed)
EvalMae(trainCsv) == 1000 * TestRows(trainCsv.nrows) + trainCsv.nrows
EvalR2(trainCsv) == 9000 - trainCsv.nrows

\* the meta dict of STEP 8
MetaDict(cols, trainCsv, stamp) ==
    [features |-> cols, target |-> TARGET, mae |-> EvalMae(trainCsv),
     r2 |-> EvalR2(trainCsv), model_type |-> "RandomForestRegressor",
     n_estimators |-> N_ESTIMATORS, max_depth |-> MAX_DEPTH,
     train_rows |-> TrainRows(trainCsv.nrows), test_rows |-> TestRows(trainCsv.nrows),
     total_rows |-> trainCsv.nrows, trained_at |-> stamp]

\* json.dump(meta, f): the text of meta.json as its token sequence
JsonDump(m) ==
    << JPunct("{"), JStr("features"), JPunct(":"), JPunct("[") >>
        \o [i \in 1..Len(m.features) |-> JStr(m.features[i])]
        \o << JPunct("]"),
              JStr("target"), JPunct(":"), JStr(m.target),
              JStr("metrics"), JPunct(":"), JPunct("{"),
                  JStr("mae"), JPunct(":"), JNum(m.mae),
                  JStr("r2"), JPunct(":"), JNum(m.r2), JPunct("}"),
              JStr("model_type"), JPunct(":"), JStr(m.model_type),
              JStr("n_estimators"), JPunct(":"), JNum(m.n_estimators),
              JStr("max_depth"), JPunct(":"), JNum(m.max_depth),
              JStr("train_rows"), JPunct(":"), JNum(m.train_rows),
              JStr("test_rows"), JPunct(":"), JNum(m.test_rows),
              JStr("total_rows"), JPunct(":"), JNum(m.total_rows),
              JStr("trained_at"), JPunct(":"), JNum(m.trained_at),
              JPunct("}") >>

NoMetaFile == [exists |-> FALSE, toks |-> <<>>]
\* a meta.json that is not a JSON document (a write cut short)
GarbageMetaFile == [exists |-> TRUE, toks |-> << JPunct("{"), JStr("features") >>]

\* ---------------------------------------- backend/ml/predict_ballondor.py
\* nesting depth of token i: the brackets opened and not closed before it
DepthBefore(toks, i) ==
    Cardinality({j \in 1..(i - 1) : toks[j] \in {JPunct("{"), JPunct("[")}})
        - Cardinality({j \in 1..(i - 1) : toks[j] \in {JPunct("}"), JPunct("]")}})

\* json.load accepts the text: one bracketed value, closed at its last token
JsonValid(toks) ==
    /\ Len(toks) >= 2
    /\ toks[1] = JPunct("{")
    /\ DepthBefore(toks, Len(toks) + 1) = 0
    /\ \A i \in 2..Len(toks) : DepthBefore(toks, i) > 0

\* the positions of key k in the top-level object
KeyPositions(toks, k) ==
    {i \in 1..(Len(toks) - 1) :
        toks[i] = JStr(k) /\ toks[i + 1] = JPunct(":") /\ DepthBefore(toks, i) = 1}

JsonHas(toks, k) == KeyPositions(toks, k) # {}

\* where the value of key k starts
ValuePos(toks, k) ==
    2 + CHOOSE i \in KeyPositions(toks, k) : \A j \in KeyPositions(toks, k) : i <= j

\* the token that closes the bracket opened at position p
ClosePos(toks, p) ==
    CHOOSE q \in (p + 1)..Len(toks) :
        /\ DepthBefore(toks, q + 1) = DepthBefore(toks, p)
        /\ \A r \in (p + 1)..(q - 1) : DepthBefore(toks, r + 1) > DepthBefore(toks, p)

\* meta[k] for a key holding a list of strings
\* as JsonList, stopping one entry short of the closing bracket
JsonList_OneShort(toks, k) ==
    LET p == ValuePos(toks, k)
        q == ClosePos(toks, p)
    IN  [i \in 1..(q - p - 2) |-> toks[p + i].s]

JsonList(toks, k) ==
    LET p == ValuePos(toks, k)
        q == ClosePos(toks, p)
    IN  [i \in 1..(q - p - 1) |-> toks[p + i].s]

\* meta[k] for a key holding a scalar
JsonScalar(toks, k) == toks[ValuePos(toks, k)]

\* meta[k] for a key holding an object: kept as its tokens
JsonObject(toks, k) ==
    LET p == ValuePos(toks, k) IN SubSeq(toks, p, ClosePos(toks, p))

\* meta.get(k, default) for a scalar
JsonGetScalar(toks, k, default) ==
    IF JsonHas(toks, k) THEN JsonScalar(toks, k) ELSE default

\* meta.get("metrics", {})
JsonGetObject(toks, k) ==
    IF JsonHas(toks, k) THEN JsonObject(toks, k) ELSE << JPunct("{"), JPunct("}") >>

\* Python's float() of text: the decimal texts the inputs below use
DecimalText == ("7" :> 7) @@ ("12" :> 12)

\* float(v) of a JSON value: numbers and booleans convert, text converts when
\* it spells a number (else ValueError), None raises TypeError
ToFloat(v) ==
    CASE v.t = "num" -> [ok |-> TRUE, val |-> v.n, exc |-> ""]
      [] v.t = "bool" -> [ok |-> TRUE, val |-> v.n, exc |-> ""]
      [] v.t = "str" ->
            IF v.s \in DOMAIN DecimalText
            THEN [ok |-> TRUE, val |-> DecimalText[v.s], exc |-> ""]
            ELSE [ok |-> FALSE, val |-> 0, exc |-> "ValueError"]
      [] OTHER -> [ok |-> FALSE, val |-> 0, exc |-> "TypeError"]

\* player.get(key, default)
PlayerGet(player, key, default) ==
    IF key \in DOMAIN player.fields THEN player.fields[key] ELSE default

\* as RowDict, with 1 for a statistic the record lacks
RowDict_MissingIsOne(player, feats) ==
    [f \in {feats[i] : i \in 1..Len(feats)} |-> ToFloat(PlayerGet(player, f, JNum(1)))]

\* the row dict of one player: row[feat] = float(player.get(feat, 0))
RowDict(player, feats) ==
    [f \in {feats[i] : i \in 1..Len(feats)} |-> ToFloat(PlayerGet(player, f, JNum(0)))]

\* pd.DataFrame(rows, columns=FEATURES): each row laid out in column order
FrameRow(rowdict, feats) == [i \in 1..Len(feats) |-> rowdict[feats[i]].val]

\* the first feature whose conversion raises, 0 when none does
FirstBadFeature(player, feats) ==
    IF \E i \in 1..Len(feats) : ~RowDict(player, feats)[feats[i]].ok
    THEN CHOOSE i \in 1..Len(feats) :
            /\ ~RowDict(player, feats)[feats[i]].ok
            /\ \A j \in 1..(i - 1) : RowDict(player, feats)[feats[j]].ok
    ELSE 0

RECURSIVE WeightedSum(_, _)
WeightedSum(row, i) == IF i = 0 THEN 0 ELSE i * row[i] + WeightedSum(row, i - 1)

\* model.predict on one row, in thousandths.  The forest is opaque: a fixed
\* function of the fitted artifact and of the row, column by column.
TreeScore(mdl, row) == 125 * mdl.fitRows + 15 * WeightedSum(row, Len(row))

\* model.predict(df): one prediction per row, in row order
ModelPredict(mdl, frame) == [i \in 1..Len(frame) |-> TreeScore(mdl, frame[i])]

\* round(float(p), 2): thousandths to hundredths, ties to even
RoundScore(p) ==
    LET q == p \div 10
        r == p % 10
    IN  IF r > 5 \/ (r = 5 /\ q % 2 = 1) THEN q + 1 ELSE q

\* as MakeResults, with the loop one entry short
MakeResults_OneShort(idlist, preds) ==
    [i \in 1..(Len(preds) - 1) |-> [id |-> idlist[i], ml_score |-> RoundScore(preds[i])]]

\* the results list of STEP 3
MakeResults(idlist, preds) ==
    [i \in 1..Len(preds) |-> [id |-> idlist[i], ml_score |-> RoundScore(preds[i])]]

\* ----------------------------------------------------- standard input
EmptyFields == [k \in {} |-> JNull]
PlayerObject(fields) == [obj |-> TRUE, fields |-> fields]

\* the entries a players array is built from
PlayerPool ==
    { PlayerObject(("id" :> JNum(1)) @@ ("goals" :> JNum(10)) @@ ("assists" :> JNum(5))),
      PlayerObject(("goals" :> JStr("7")) @@ ("nationality" :> JStr("FR"))),
      PlayerObject(("id" :> JStr("p9")) @@ ("assists" :> JBool(TRUE)) @@ ("minutes" :> JNum(900))),
      PlayerObject(("id" :> JNum(3)) @@ ("goals" :> JStr("many")) @@ ("assists" :> JNull)),
      [obj |-> FALSE, fields |-> EmptyFields] }

Batches == UNION {[1..n -> PlayerPool] : n \in 1..MaxPlayers}

Doc(kind, hasPlayers, ptype, pnum, plist) ==
    [kind |-> kind, hasPlayers |-> hasPlayers, ptype |-> ptype, pnum |-> pnum,
     players |-> plist]

\* what a run may find on standard input
StdinDocs ==
    { Doc("invalid", FALSE, "none", 0, <<>>),     \* text that is not JSON
      Doc("array", FALSE, "none", 0, <<>>),       \* [] : JSON, not an object
      Doc("object", FALSE, "none", 0, <<>>),      \* {}
      Doc("object", TRUE, "list", 0, <<>>),       \* {"players": []}
      Doc("object", TRUE, "null", 0, <<>>),       \* {"players": null}
      Doc("object", TRUE, "num", 5, <<>>) }       \* {"players": 5}
        \cup {Doc("object", TRUE, "list", 0, b) : b \in Batches}

NoDoc == Doc("none", FALSE, "none", 0, <<>>)

\* data.get("players", [])
GetPlayers(doc) ==
    IF doc.hasPlayers
    THEN [ptype |-> doc.ptype, pnum |-> doc.pnum, items |-> doc.players]
    ELSE [ptype |-> "list", pnum |-> 0, items |-> <<>>]

\* as Truthy, with an empty list taken for a batch
Truthy_EmptyListPasses(pv) ==
    CASE pv.ptype = "list" -> TRUE
      [] pv.ptype = "num" -> pv.pnum # 0
      [] OTHER -> FALSE

\* Python truth value of the players value
Truthy(pv) ==
    CASE pv.ptype = "list" -> pv.items # <<>>
      [] pv.ptype = "num" -> pv.pnum # 0
      [] OTHER -> FALSE

NoPlayers == [ptype |-> "list", pnum |-> 0, items |-> <<>>]

\* ----------------------------------------------------- standard output
NoOutMeta ==
    [model_type |-> JNull, features_used |-> <<>>, metrics |-> <<>>, trained_at |-> JNull]
NoOut == [kind |-> "none", msg |-> <<>>, results |-> <<>>, meta |-> NoOutMeta]
ErrorOut(msg) == [kind |-> "error", msg |-> msg, results |-> <<>>, meta |-> NoOutMeta]
ResultsOut(results, m) == [kind |-> "results", msg |-> <<>>, results |-> results, meta |-> m]

\* as OutputMeta, with the time of the prediction for trained_at
OutputMeta_StampedNow(toks, feats) ==
    [model_type |-> JsonGetScalar(toks, "model_type", JStr("RandomForestRegressor")),
     features_used |-> feats,
     metrics |-> JsonGetObject(toks, "metrics"),
     trained_at |-> JNum(now)]

\* the "meta" object of the output document
OutputMeta(toks, feats) ==
    [model_type |-> JsonGetScalar(toks, "model_type", JStr("RandomForestRegressor")),
     features_used |-> feats,
     metrics |-> JsonGetObject(toks, "metrics"),
     trained_at |-> JsonGetScalar(toks, "trained_at", JStr("unknown"))]

\* --------------------------------------------------------- ml/features.py
\* League weights in hundredths (1.0 is 100)
LEAGUE_WEIGHTS ==
    ("Premier League" :> 100) @@ ("La Liga" :> 95) @@ ("Serie A" :> 90)
        @@ ("Bundesliga" :> 90) @@ ("Ligue 1" :> 85) @@ ("Super Lig" :> 75)
        @@ ("Saudi Pro League" :> 70)

\* as get_league_weight, with the name compared regardless of the table
get_league_weight_NoDefault(league_name) ==
    IF league_name \in DOMAIN LEAGUE_WEIGHTS THEN LEAGUE_WEIGHTS[league_name] ELSE 0

get_league_weight(league_name) ==
    IF league_name \in DOMAIN LEAGUE_WEIGHTS THEN LEAGUE_WEIGHTS[league_name] ELSE 80

\* A number as Python holds it: v, or NaN (an empty CSV cell)
Num(v) == [nan |-> FALSE, v |-> v]
NaN == [nan |-> TRUE, v |-> 0]
\* what a call returns: a number, or the exception it raised
Returned(x) == [err |-> "", nan |-> x.nan, v |-> x.v]
Raised(exc) == [err |-> exc, nan |-> FALSE, v |-> 0]

RECURSIVE Pow2(_)
Pow2(k) == IF k = 0 THEN 1 ELSE 2 * Pow2(k - 1)

\* the k with 2^k <= c/m < 2^(k+1), for c, m > 0
RECURSIVE BinaryExponent(_, _)
BinaryExponent(c, m) ==
    IF c >= 2 * m THEN 1 + BinaryExponent(c, 2 * m)
    ELSE IF c < m THEN BinaryExponent(2 * c, m) - 1
    ELSE 0

\* (x * 2^e) mod n, eight binary places at a time
RECURSIVE ShiftMod(_, _, _)
ShiftMod(x, e, n) ==
    IF e = 0 THEN x % n
    ELSE IF e >= 8 THEN ShiftMod((256 * (x % n)) % n, e - 8, n)
    ELSE ShiftMod((2 * (x % n)) % n, e - 1, n)

\* The binary64 value of (c / m) * 90 against the exact 90c/m, for integers
\* c, m > 0: the float is 90c/m - FloatError(c, m) / (m * 2^e).  The division
\* rounds c*2^e/m to a 53-bit integer M1 (remainder r1s), the product rounds
\* 90*M1 to 53 bits again (remainder r2s); both round to nearest, ties to even.
FloatError(c, m) ==
    LET k == BinaryExponent(c, m)
        e == 52 - k
        r1 == ShiftMod(c, e, m)
        adj1 == IF 2 * r1 > m THEN 1 ELSE 0
        r1s == r1 - adj1 * m
        m1 == ((ShiftMod(c, e, 256 * m) \div m) + adj1) % 256
        big == IF k >= 0 THEN 90 * c >= 128 * Pow2(k) * m
                         ELSE 90 * c * Pow2(0 - k) >= 128 * m
        s == IF big THEN 7 ELSE 6
        r2 == (90 * m1) % Pow2(s)
        odd == ((90 * m1) % Pow2(s + 1)) >= Pow2(s)
        adj2 == IF r2 > Pow2(s - 1) \/ (r2 = Pow2(s - 1) /\ odd) THEN 1 ELSE 0
        r2s == r2 - adj2 * Pow2(s)
    IN  90 * r1s + m * r2s

\* round((c / m) * 90, 2) in hundredths, for integers c >= 0, m > 0: Python
\* rounds the float it holds to the nearest hundredth, an exact tie to even
RoundedRate(c, m) ==
    LET fl == (9000 * c) \div m
        rem == (9000 * c) % m
        d == IF c = 0 THEN 0 ELSE FloatError(c, m)
    IN  IF 2 * rem < m THEN fl
        ELSE IF 2 * rem > m THEN fl + 1
        ELSE IF d > 0 THEN fl
        ELSE IF d < 0 THEN fl + 1
        ELSE IF fl % 2 = 0 THEN fl ELSE fl + 1

\* the two statements after the guard: (count / minutes_played) * 90, rounded.
\* Division by zero raises; NaN in either operand gives NaN.
RatePer90(count, minutes_played) ==
    IF count.nan \/ minutes_played.nan THEN Returned(NaN)
    ELSE IF minutes_played.v = 0 THEN Raised("ZeroDivisionError")
    ELSE Returned(Num(RoundedRate(count.v, minutes_played.v)))

\* as calculate_goals_per_90, without the guard on minutes_played
calculate_goals_per_90_NoGuard(goals, minutes_played) ==
    RatePer90(goals, minutes_played)

calculate_goals_per_90(goals, minutes_played) ==
    IF ~minutes_played.nan /\ minutes_played.v = 0
    THEN Returned(Num(0))
    ELSE RatePer90(goals, minutes_played)

calculate_assists_per_90(assists, minutes_played) ==
    IF ~minutes_played.nan /\ minutes_played.v = 0
    THEN Returned(Num(0))
    ELSE RatePer90(assists, minutes_played)

\* ----------------------------------------- calls of the feature functions
\* the minutes_played values the functions are called with
MinutesInputs == {0, 1, 16, 48, 80, 90, 144, 900, 2700}
\* the league names they are called with: the table's and others
LeagueInputs ==
    DOMAIN LEAGUE_WEIGHTS \cup {"MLS", "premier league", "Serie B", ""}

\* ------------------------------------------- tables (pandas DataFrames)
\* A table: the columns it has and its rows.  A row keeps a value for every
\* column name the scripts use; only the columns in `cols` exist.
RawCols ==
    {"name", "team", "league", "goals", "assists", "xG", "xA", "minutes_played",
     "ballon_dor_score"}

TableRow(name, team, league, goals, assists, xG, xA, minutes, score) ==
    [name |-> name, team |-> team, league |-> league, goals |-> goals, assists |-> assists,
     xG |-> xG, xA |-> xA, minutes_played |-> minutes, ballon_dor_score |-> score,
     goals_per_90 |-> NaN, assists_per_90 |-> NaN, league_weight |-> NaN,
     predicted_score |-> NaN, rank |-> 0]

\* the rows players.csv is built from
RowPool ==
    { TableRow("Haaland", "Man City", "Premier League", Num(10), Num(5), Num(9), Num(4), Num(900), Num(80)),
      TableRow("Mbappe", "PSG", "Ligue 1", Num(7), Num(3), Num(6), Num(2), Num(80), Num(70)),
      TableRow("Messi", "Inter Miami", "MLS", Num(2), Num(1), Num(1), Num(1), Num(0), Num(20)),
      TableRow("Kane", "Bayern", "Bundesliga", Num(4), Num(2), Num(3), Num(2), NaN, Num(40)) }

\* the column sets players.csv comes with: all, or one raw column missing
ColumnSets ==
    {RawCols} \cup {RawCols \ {c} : c \in {"minutes_played", "league", "goals", "assists",
                                            "xG", "xA", "ballon_dor_score"}}

NoTable == [exists |-> FALSE, cols |-> {}, rows |-> <<>>]

PlayerTables ==
    {[exists |-> TRUE, cols |-> cs, rows |-> rs] :
        cs \in ColumnSets, rs \in UNION {[1..n -> RowPool] : n \in 1..MaxRows}}

\* the value a call left, as a table cell
Cell(r) == [nan |-> r.nan, v |-> r.v]

\* the value of a numeric column in a row
ColumnValue(row, c) ==
    CASE c = "goals" -> row.goals
      [] c = "assists" -> row.assists
      [] c = "xG" -> row.xG
      [] c = "xA" -> row.xA
      [] c = "minutes_played" -> row.minutes_played
      [] c = "goals_per_90" -> row.goals_per_90
      [] c = "assists_per_90" -> row.assists_per_90
      [] c = "league_weight" -> row.league_weight
      [] c = "ballon_dor_score" -> row.ballon_dor_score
      [] OTHER -> NaN

\* df[c] = cells: the column c set, row by row, on the frame itself
WithColumn(frame, c, cells) ==
    [frame EXCEPT !.cols = @ \cup {c},
                  !.rows = [i \in 1..Len(frame.rows) |->
                               [frame.rows[i] EXCEPT ![c] = cells[i]]]]

\* ------------------------------- ml/features.py add_features_to_dataframe
\* The frame is changed in place, column by column.  Each statement takes the
\* outcome so far, r = [err, df]; a column it indexes and the frame lacks
\* raises KeyError, leaving the columns set so far.
KeyError(r) == [err |-> "KeyError", df |-> r.df]

\* df["goals_per_90"] = df.apply(lambda row: calculate_goals_per_90(...), axis=1)
AddGoalsPer90_MissingIsZero(r) ==
    [err |-> "",
     df |-> WithColumn(r.df, "goals_per_90",
               [i \in 1..Len(r.df.rows) |->
                   Cell(calculate_goals_per_90(
                       IF "goals" \in r.df.cols THEN r.df.rows[i].goals ELSE Num(0),
                       IF "minutes_played" \in r.df.cols
                       THEN r.df.rows[i].minutes_played ELSE Num(0)))])]

AddGoalsPer90(r) ==
    IF r.err # "" THEN r
    ELSE IF ~({"goals", "minutes_played"} \subseteq r.df.cols) THEN KeyError(r)
    ELSE [err |-> "",
          df |-> WithColumn(r.df, "goals_per_90",
                    [i \in 1..Len(r.df.rows) |->
                        Cell(calculate_goals_per_90(r.df.rows[i].goals,
                                                    r.df.rows[i].minutes_played))])]

\* as AddAssistsPer90, with the lambda of the goals column copied unchanged
AddAssistsPer90_FromGoals(r) ==
    IF r.err # "" THEN r
    ELSE IF ~({"goals", "minutes_played"} \subseteq r.df.cols) THEN KeyError(r)
    ELSE [err |-> "",
          df |-> WithColumn(r.df, "assists_per_90",
                    [i \in 1..Len(r.df.rows) |->
                        Cell(calculate_goals_per_90(r.df.rows[i].goals,
                                                    r.df.rows[i].minutes_played))])]

\* df["assists_per_90"] = df.apply(lambda row: calculate_assists_per_90(...), axis=1)
AddAssistsPer90(r) ==
    IF r.err # "" THEN r
    ELSE IF ~({"assists", "minutes_played"} \subseteq r.df.cols) THEN KeyError(r)
    ELSE [err |-> "",
          df |-> WithColumn(r.df, "assists_per_90",
                    [i \in 1..Len(r.df.rows) |->
                        Cell(calculate_assists_per_90(r.df.rows[i].assists,
                                                      r.df.rows[i].minutes_played))])]

\* df["league_weight"] = df["league"].apply(get_league_weight)
AddLeagueWeight(r) ==
    IF r.err # "" THEN r
    ELSE IF "league" \notin r.df.cols THEN KeyError(r)
    ELSE [err |-> "",
          df |-> WithColumn(r.df, "league_weight",
                    [i \in 1..Len(r.df.rows) |->
                        Num(get_league_weight(r.df.rows[i].league))])]

add_features_to_dataframe(frame) ==
    AddLeagueWeight(AddAssistsPer90(AddGoalsPer90([err |-> "", df |-> frame])))

\* ------------------------------------------------- ml/train.py, predict.py
feature_columns ==
    << "goals", "assists", "xG", "xA", "goals_per_90", "assists_per_90", "league_weight" >>

HasColumns(frame, cols) == \A i \in 1..Len(cols) : cols[i] \in frame.cols

\* data[cols]: the rows cut to the columns, in the order of cols
SelectColumns(frame, cols) ==
    [i \in 1..Len(frame.rows) |-> [j \in 1..Len(cols) |-> ColumnValue(frame.rows[i], cols[j])]]

\* a NaN anywhere in the selection (scikit-learn rejects it)
HasNaN(sel) == \E i \in 1..Len(sel) : \E j \in 1..Len(sel[i]) : sel[i][j].nan

\* LinearRegression().fit: opaque; the artifact keeps the columns it was fit
\* on and the training rows that determine its weights
FitLinear(cols, nrows) ==
    [kind |-> "fitted", features |-> cols, fitRows |-> TrainRows(nrows)]

RECURSIVE WeightedCells(_, _)
WeightedCells(xrow, i) ==
    IF i = 0 THEN 0 ELSE i * xrow[i].v + WeightedCells(xrow, i - 1)

\* model.predict(X) of the linear model, in hundredths: a fixed function of
\* the artifact and of the row, column by column
LinearPredict(mdl, sel) ==
    [i \in 1..Len(sel) |-> 25 * mdl.fitRows + WeightedCells(sel[i], Len(sel[i]))]

\* Series.round(1): hundredths to the nearest tenth (kept in hundredths)
RoundTenth(h) ==
    LET q == h \div 10
        r == h % 10
    IN  10 * (IF r > 5 \/ (r = 5 /\ q % 2 = 1) THEN q + 1 ELSE q)

\* the number of rows that sort before row i: higher score, or equal and earlier
RankOf(rs, i) ==
    1 + Cardinality({j \in 1..Len(rs) :
            \/ rs[j].predicted_score.v > rs[i].predicted_score.v
            \/ rs[j].predicted_score.v = rs[i].predicted_score.v /\ j < i})

\* sort_values("predicted_score", ascending=False), then rank = 1..n
RankRows(rs) ==
    [k \in 1..Len(rs) |->
        LET i == CHOOSE i \in 1..Len(rs) : RankOf(rs, i) = k
        IN  [rs[i] EXCEPT !.rank = k]]

\* pickle.dump(feature_columns, file): the opcodes of a list of strings
PickleDump(list) == << "EMPTY_LIST", "MARK" >> \o list \o << "APPENDS", "STOP" >>
\* pickle.load(file)
PickleLoad(ops) == SubSeq(ops, 3, Len(ops) - 2)

NoPickle == [exists |-> FALSE, ops |-> <<>>]
NoPredictions == [exists |-> FALSE, rows |-> <<>>]

\* the output columns of predictions.csv
OutputRow(r) ==
    [rank |-> r.rank, name |-> r.name, team |-> r.team, league |-> r.league, goals |-> r.goals,
     assists |-> r.assists, predicted_score |-> r.predicted_score]

\* ---------------------------------------------------------- initial state
NoCsv == [exists |-> FALSE, nrows |-> 0]
NoFiles == [modelFile |-> NoModelFile, metaFile |-> NoMetaFile]
NoRun ==
    [set |-> FALSE, files |-> NoFiles, stdin |-> NoDoc, stdout |-> NoOut, exitCode |-> 0]

FreshLocals ==
    /\ csv = NoCsv
    /\ stdin = NoDoc
    /\ model = NoModelFile
    /\ meta = <<>>
    /\ predFEATURES = <<>>
    /\ players = NoPlayers
    /\ rows = <<>>
    /\ ids = <<>>
    /\ df = <<>>
    /\ predictions = <<>>

NotCalled == [err |-> "not called", nan |-> FALSE, v |-> 0]

\* the artifacts an earlier run of train.py left
TrainedPkl == FitLinear(feature_columns, 2)
TrainedColsPkl == [exists |-> TRUE, ops |-> PickleDump(feature_columns)]

\* A behaviour follows one set of scripts: the backend pair, the ml pair, or
\* calls of the feature functions.  The sets share no file and no state.
Init ==
    /\ now = 0
    /\ FreshLocals
    /\ stdout = NoOut
    /\ stderr = ""
    /\ exitCode = -1
    /\ startFiles = NoFiles
    /\ lastRun = NoRun
    /\ processedCsv = NoTable
    /\ predictionsCsv = NoPredictions
    /\ data = NoTable
    /\ loadedColumns = <<>>
    /\ X = <<>>
    /\ resGoals = NotCalled
    /\ resAssists = NotCalled
    /\ resWeight = 0
    /\ \/ /\ variant = "backend"
          /\ run = "none"
          /\ pc = "idle"
          /\ modelFile \in {NoModelFile, GarbageModelFile}
          /\ metaFile \in {NoMetaFile, GarbageMetaFile}
          /\ playersCsv = NoTable
          /\ mlModelPkl = NoModelFile
          /\ mlColsPkl = NoPickle
          /\ argCount = 0
          /\ argMinutes = 0
          /\ argLeague = ""
       \/ /\ variant = "ml"
          /\ run = "none"
          /\ pc = "idle"
          /\ modelFile = NoModelFile
          /\ metaFile = NoMetaFile
          /\ playersCsv \in PlayerTables \cup {NoTable}
          /\ \E trained \in BOOLEAN :
                /\ mlModelPkl = IF trained THEN TrainedPkl ELSE NoModelFile
                /\ mlColsPkl = IF trained THEN TrainedColsPkl ELSE NoPickle
          /\ argCount = 0
          /\ argMinutes = 0
          /\ argLeague = ""
       \/ /\ variant = "calls"
          /\ run = "features"
          /\ pc = "c_goals"
          /\ modelFile = NoModelFile
          /\ metaFile = NoMetaFile
          /\ playersCsv = NoTable
          /\ mlModelPkl = NoModelFile
          /\ mlColsPkl = NoPickle
          /\ argCount \in 0..MaxCount
          /\ argMinutes \in MinutesInputs
          /\ argLeague \in LeagueInputs

\* ------------------------------------------------------- how a run ends
\* an unhandled exception: traceback on stderr, nothing more on stdout, exit 1
Crash(exc) ==
    /\ stderr' = exc
    /\ exitCode' = 1
    /\ pc' = "done"
    /\ UNCHANGED stdout

\* print(json.dumps({"error": msg})); sys.exit(1)
Fail(msg) ==
    /\ stdout' = ErrorOut(msg)
    /\ exitCode' = 1
    /\ pc' = "done"
    /\ UNCHANGED stderr

Goto(l) ==
    /\ pc' = l
    /\ UNCHANGED outVars

FreshLocals_next ==
    /\ csv' = NoCsv
    /\ stdin' = NoDoc
    /\ model' = NoModelFile
    /\ meta' = <<>>
    /\ predFEATURES' = <<>>
    /\ players' = NoPlayers
    /\ rows' = <<>>
    /\ ids' = <<>>
    /\ df' = <<>>
    /\ predictions' = <<>>

\* the process exits; the next invocation starts from nothing but the files
Finish ==
    /\ variant = "backend"
    /\ pc = "done"
    /\ pc' = "idle"
    /\ run' = "none"
    /\ FreshLocals_next
    /\ lastRun' = IF run = "predict"
                  THEN [set |-> TRUE, files |-> startFiles, stdin |-> stdin,
                        stdout |-> stdout, exitCode |-> exitCode]
                  ELSE lastRun
    /\ UNCHANGED << fsVars, now, variant, mlVars, callVars, outVars, startFiles >>

\* time passes between two invocations
Tick ==
    /\ variant = "backend"
    /\ pc = "idle"
    /\ now < MaxClock
    /\ now' = now + 1
    /\ UNCHANGED << fsVars, variant, mlVars, callVars, run, pc, locals, outVars, startFiles,
                    lastRun >>

\* the remembered run is dropped: the next batch may be any document
Forget ==
    /\ pc = "idle"
    /\ lastRun.set
    /\ lastRun' = NoRun
    /\ UNCHANGED << fsVars, now, variant, mlVars, callVars, run, pc, locals, outVars, startFiles >>

\* --------------------------------------- train_ballondor.py, step by step
StartTrain(c) ==
    /\ variant = "backend"
    /\ pc = "idle"
    /\ run' = "train"
    /\ pc' = "t_load"
    /\ csv' = c
    /\ stdout' = NoOut
    /\ stderr' = ""
    /\ exitCode' = -1
    /\ startFiles' = [modelFile |-> modelFile, metaFile |-> metaFile]
    /\ UNCHANGED << fsVars, now, variant, mlVars, callVars, stdin, model, meta, predFEATURES, players, rows, ids,
                    df, predictions, lastRun >>

\* STEP 1: pd.read_csv(CSV_PATH)
T_Load ==
    /\ pc = "t_load"
    /\ IF csv.exists THEN Goto("t_fit") ELSE Crash("FileNotFoundError")
    /\ UNCHANGED << fsVars, now, variant, mlVars, callVars, run, locals, startFiles, lastRun >>

\* STEP 2..6: select X = df[FEATURES], split 80/20, fit, evaluate
T_Fit ==
    /\ pc = "t_fit"
    /\ IF TrainRows(csv.nrows) >= 1 /\ TestRows(csv.nrows) >= 1
       THEN /\ model' = FitModel(FEATURES, csv)
            /\ Goto("t_saveModel")
       ELSE /\ Crash("ValueError")
            /\ UNCHANGED model
    /\ UNCHANGED << fsVars, now, variant, mlVars, callVars, run, csv, stdin, meta, predFEATURES, players, rows, ids,
                    df, predictions, startFiles, lastRun >>

\* as T_SaveModel, keeping a file that is already at MODEL_PATH
T_SaveModel_KeepExisting ==
    /\ pc = "t_saveModel"
    /\ modelFile' = IF modelFile.kind = "absent" THEN model ELSE modelFile
    /\ Goto("t_saveMeta")
    /\ UNCHANGED << metaFile, now, variant, mlVars, callVars, run, locals, startFiles, lastRun >>

\* STEP 7: os.makedirs(MODEL_DIR, exist_ok=True); joblib.dump(model, MODEL_PATH)
T_SaveModel ==
    /\ pc = "t_saveModel"
    /\ modelFile' = model
    /\ Goto("t_saveMeta")
    /\ UNCHANGED << metaFile, now, variant, mlVars, callVars, run, locals, startFiles, lastRun >>

\* STEP 8: build meta (reads the clock) and json.dump it to META_PATH
T_SaveMeta ==
    /\ pc = "t_saveMeta"
    /\ metaFile' = [exists |-> TRUE, toks |-> JsonDump(MetaDict(FEATURES, csv, now))]
    /\ pc' = "done"
    /\ exitCode' = 0
    /\ UNCHANGED << modelFile, now, variant, mlVars, callVars, run, locals, stdout, stderr, startFiles,
                    lastRun >>

\* ------------------------------------- predict_ballondor.py, step by step
\* A batch to compare with the remembered run is the same document again.
StartPredict(doc) ==
    /\ variant = "backend"
    /\ pc = "idle"
    /\ lastRun.set => doc = lastRun.stdin
    /\ run' = "predict"
    /\ pc' = "p_checkModel"
    /\ stdin' = doc
    /\ stdout' = NoOut
    /\ stderr' = ""
    /\ exitCode' = -1
    /\ startFiles' = [modelFile |-> modelFile, metaFile |-> metaFile]
    /\ UNCHANGED << fsVars, now, variant, mlVars, callVars, csv, model, meta, predFEATURES, players, rows, ids,
                    df, predictions, lastRun >>

\* STEP 1: if not os.path.exists(MODEL_PATH)
P_CheckModel ==
    /\ pc = "p_checkModel"
    /\ IF modelFile.kind = "absent"
       THEN Fail(<< "Model file not found. Run train_ballondor.py first." >>)
       ELSE Goto("p_checkMeta")
    /\ UNCHANGED << fsVars, now, variant, mlVars, callVars, run, locals, startFiles, lastRun >>

\* STEP 1: if not os.path.exists(META_PATH)
P_CheckMeta ==
    /\ pc = "p_checkMeta"
    /\ IF ~metaFile.exists
       THEN Fail(<< "Meta file not found. Run train_ballondor.py first." >>)
       ELSE Goto("p_loadModel")
    /\ UNCHANGED << fsVars, now, variant, mlVars, callVars, run, locals, startFiles, lastRun >>

\* model = joblib.load(MODEL_PATH)
P_LoadModel ==
    /\ pc = "p_loadModel"
    /\ IF modelFile.kind = "fitted"
       THEN /\ model' = modelFile
            /\ Goto("p_loadMeta")
       ELSE /\ Crash("UnpicklingError")
            /\ UNCHANGED model
    /\ UNCHANGED << fsVars, now, variant, mlVars, callVars, run, csv, stdin, meta, predFEATURES, players, rows, ids,
                    df, predictions, startFiles, lastRun >>

\* meta = json.load(f); FEATURES = meta["features"]
P_LoadMeta ==
    /\ pc = "p_loadMeta"
    /\ IF ~JsonValid(metaFile.toks)
       THEN /\ Crash("JSONDecodeError")
            /\ UNCHANGED << meta, predFEATURES >>
       ELSE IF ~JsonHas(metaFile.toks, "features")
       THEN /\ Crash("KeyError")
            /\ meta' = metaFile.toks
            /\ UNCHANGED predFEATURES
       ELSE /\ meta' = metaFile.toks
            /\ predFEATURES' = JsonList(metaFile.toks, "features")
            /\ Goto("p_readInput")
    /\ UNCHANGED << fsVars, now, variant, mlVars, callVars, run, csv, stdin, model, players, rows, ids, df,
                    predictions, startFiles, lastRun >>

\* as P_ReadInput, with the JSONDecodeError left uncaught
P_ReadInput_Uncaught ==
    /\ pc = "p_readInput"
    /\ IF stdin.kind = "invalid" THEN Crash("JSONDecodeError") ELSE Goto("p_players")
    /\ UNCHANGED << fsVars, now, variant, mlVars, callVars, run, locals, startFiles, lastRun >>

\* STEP 2: data = json.loads(sys.stdin.read()), JSONDecodeError caught
P_ReadInput ==
    /\ pc = "p_readInput"
    /\ IF stdin.kind = "invalid"
       THEN Fail(<< "Invalid JSON input: ", "Expecting value: line 1 column 1 (char 0)" >>)
       ELSE Goto("p_players")
    /\ UNCHANGED << fsVars, now, variant, mlVars, callVars, run, locals, startFiles, lastRun >>

\* players = data.get("players", []); if not players: error
P_Players ==
    /\ pc = "p_players"
    /\ IF stdin.kind # "object"
       THEN /\ Crash("AttributeError")
            /\ UNCHANGED players
       ELSE /\ players' = GetPlayers(stdin)
            /\ IF Truthy(players')
               THEN Goto("p_rows")
               ELSE Fail(<< "No players provided in input" >>)
    /\ UNCHANGED << fsVars, now, variant, mlVars, callVars, run, csv, stdin, model, meta, predFEATURES, rows, ids, df,
                    predictions, startFiles, lastRun >>

\* STEP 3: one turn of `for player in players` (or the loop's end)
P_Row ==
    /\ pc = "p_rows"
    /\ IF players.ptype # "list"
       THEN /\ Crash("TypeError")
            /\ UNCHANGED << rows, ids >>
       ELSE IF Len(rows) = Len(players.items)
       THEN /\ Goto("p_predict")
            /\ UNCHANGED << rows, ids >>
       ELSE LET player == players.items[Len(rows) + 1]
                bad == FirstBadFeature(player, predFEATURES)
                rowdict == RowDict(player, predFEATURES)
            IN  IF ~player.obj
                THEN /\ Crash("AttributeError")
                     /\ UNCHANGED << rows, ids >>
                ELSE IF bad # 0
                THEN /\ Crash(rowdict[predFEATURES[bad]].exc)
                     /\ UNCHANGED << rows, ids >>
                ELSE /\ rows' = Append(rows, rowdict)
                     /\ ids' = Append(ids, PlayerGet(player, "id", JNum(0)))
                     /\ Goto("p_rows")
    /\ UNCHANGED << fsVars, now, variant, mlVars, callVars, run, csv, stdin, model, meta, predFEATURES,
                    players, df, predictions, startFiles, lastRun >>

\* df = pd.DataFrame(rows, columns=FEATURES); predictions = model.predict(df)
\* (scikit-learn rejects a frame with no row or with another number of columns)
P_Predict ==
    /\ pc = "p_predict"
    /\ df' = [i \in 1..Len(rows) |-> FrameRow(rows[i], predFEATURES)]
    /\ IF Len(rows) >= 1 /\ Len(predFEATURES) = Len(model.features)
       THEN /\ predictions' = ModelPredict(model, df')
            /\ Goto("p_output")
       ELSE /\ Crash("ValueError")
            /\ UNCHANGED predictions
    /\ UNCHANGED << fsVars, now, variant, mlVars, callVars, run, csv, stdin, model, meta, predFEATURES,
                    players, rows, ids, startFiles, lastRun >>

\* results list, then STEP 4: print(json.dumps(output))
P_Output ==
    /\ pc = "p_output"
    /\ stdout' = ResultsOut(MakeResults(ids, predictions), OutputMeta(meta, predFEATURES))
    /\ exitCode' = 0
    /\ pc' = "done"
    /\ UNCHANGED << fsVars, now, variant, mlVars, callVars, run, locals, stderr, startFiles, lastRun >>

\* ------------------------------------------------ ml/train.py, step by step
\* (the progress lines the ml scripts print are not modelled)
MlLocals == << model, predictions, data, loadedColumns, X >>

StartMlTrain ==
    /\ variant = "ml"
    /\ pc = "idle"
    /\ run' = "m_train"
    /\ pc' = "mt_load"
    /\ stderr' = ""
    /\ exitCode' = -1
    /\ UNCHANGED << now, variant, backendVars, callVars, mlFiles, playersCsv, MlLocals,
                    stdout >>

\* STEP 1: data = pd.read_csv("data/raw/players.csv")
MT_Load ==
    /\ pc = "mt_load"
    /\ IF playersCsv.exists
       THEN /\ data' = playersCsv
            /\ Goto("mt_features")
       ELSE /\ Crash("FileNotFoundError")
            /\ UNCHANGED data
    /\ UNCHANGED << now, variant, run, backendVars, callVars, mlFiles, playersCsv, model,
                    predictions, loadedColumns, X >>

\* STEP 2: data = add_features_to_dataframe(data); data.to_csv(processed)
MT_Features ==
    /\ pc = "mt_features"
    /\ \E r \in {add_features_to_dataframe(data)} :
          /\ data' = r.df
          /\ IF r.err = ""
             THEN /\ processedCsv' = r.df
                  /\ Goto("mt_select")
             ELSE /\ Crash(r.err)
                  /\ UNCHANGED processedCsv
    /\ UNCHANGED << now, variant, run, backendVars, callVars, mlModelPkl, mlColsPkl,
                    predictionsCsv, playersCsv, model, predictions, loadedColumns, X >>

\* STEP 3: X = data[feature_columns]; y = data["ballon_dor_score"]
MT_Select ==
    /\ pc = "mt_select"
    /\ IF HasColumns(data, feature_columns) /\ "ballon_dor_score" \in data.cols
       THEN /\ X' = SelectColumns(data, feature_columns)
            /\ Goto("mt_fit")
       ELSE /\ Crash("KeyError")
            /\ UNCHANGED X
    /\ UNCHANGED << now, variant, run, backendVars, callVars, mlFiles, playersCsv, model,
                    predictions, data, loadedColumns >>

\* STEP 4..6: split 80/20, fit, score and predict on the held-out rows
MT_Fit ==
    /\ pc = "mt_fit"
    /\ IF /\ TrainRows(Len(X)) >= 1
          /\ TestRows(Len(X)) >= 1
          /\ ~HasNaN(X)
          /\ ~HasNaN(SelectColumns(data, << "ballon_dor_score" >>))
       THEN /\ model' = FitLinear(feature_columns, Len(X))
            /\ Goto("mt_saveModel")
       ELSE /\ Crash("ValueError")
            /\ UNCHANGED model
    /\ UNCHANGED << now, variant, run, backendVars, callVars, mlFiles, playersCsv,
                    predictions, data, loadedColumns, X >>

\* STEP 7: pickle.dump(model, "model.pkl")
MT_SaveModel ==
    /\ pc = "mt_saveModel"
    /\ mlModelPkl' = model
    /\ Goto("mt_saveColumns")
    /\ UNCHANGED << now, variant, run, backendVars, callVars, mlColsPkl, processedCsv,
                    predictionsCsv, playersCsv, MlLocals >>

\* STEP 7: pickle.dump(feature_columns, "feature_columns.pkl")
MT_SaveColumns ==
    /\ pc = "mt_saveColumns"
    /\ mlColsPkl' = [exists |-> TRUE, ops |-> PickleDump(feature_columns)]
    /\ pc' = "done"
    /\ exitCode' = 0
    /\ UNCHANGED << now, variant, run, backendVars, callVars, mlModelPkl, processedCsv,
                    predictionsCsv, playersCsv, MlLocals, stdout, stderr >>

\* ---------------------------------------------- ml/predict.py, step by step
StartMlPredict ==
    /\ variant = "ml"
    /\ pc = "idle"
    /\ run' = "m_predict"
    /\ pc' = "mp_loadModel"
    /\ stderr' = ""
    /\ exitCode' = -1
    /\ UNCHANGED << now, variant, backendVars, callVars, mlFiles, playersCsv, MlLocals,
                    stdout >>

\* STEP 1: model = pickle.load(open("model.pkl"))
MP_LoadModel ==
    /\ pc = "mp_loadModel"
    /\ IF mlModelPkl.kind = "fitted"
       THEN /\ model' = mlModelPkl
            /\ Goto("mp_loadColumns")
       ELSE /\ Crash("FileNotFoundError")
            /\ UNCHANGED model
    /\ UNCHANGED << now, variant, run, backendVars, callVars, mlFiles, playersCsv,
                    predictions, data, loadedColumns, X >>

\* STEP 1: feature_columns = pickle.load(open("feature_columns.pkl"))
MP_LoadColumns ==
    /\ pc = "mp_loadColumns"
    /\ IF mlColsPkl.exists
       THEN /\ loadedColumns' = PickleLoad(mlColsPkl.ops)
            /\ Goto("mp_loadData")
       ELSE /\ Crash("FileNotFoundError")
            /\ UNCHANGED loadedColumns
    /\ UNCHANGED << now, variant, run, backendVars, callVars, mlFiles, playersCsv, model,
                    predictions, data, X >>

\* STEP 2: data = pd.read_csv("data/raw/players.csv")
MP_LoadData ==
    /\ pc = "mp_loadData"
    /\ IF playersCsv.exists
       THEN /\ data' = playersCsv
            /\ Goto("mp_features")
       ELSE /\ Crash("FileNotFoundError")
            /\ UNCHANGED data
    /\ UNCHANGED << now, variant, run, backendVars, callVars, mlFiles, playersCsv, model,
                    predictions, loadedColumns, X >>

\* STEP 3: data = add_features_to_dataframe(data)
MP_Features ==
    /\ pc = "mp_features"
    /\ \E r \in {add_features_to_dataframe(data)} :
          /\ data' = r.df
          /\ IF r.err = "" THEN Goto("mp_predict") ELSE Crash(r.err)
    /\ UNCHANGED << now, variant, run, backendVars, callVars, mlFiles, playersCsv, model,
                    predictions, loadedColumns, X >>

\* STEP 4: X = data[feature_columns]; predictions = model.predict(X);
\* data["predicted_score"] = predictions, rounded to 1 decimal
MP_Predict ==
    /\ pc = "mp_predict"
    /\ IF ~HasColumns(data, loadedColumns)
       THEN /\ Crash("KeyError")
            /\ UNCHANGED << X, predictions, data >>
       ELSE /\ X' = SelectColumns(data, loadedColumns)
            /\ IF HasNaN(X') \/ Len(loadedColumns) # Len(model.features)
               THEN /\ Crash("ValueError")
                    /\ UNCHANGED << predictions, data >>
               ELSE /\ predictions' = LinearPredict(model, X')
                    /\ data' = [data EXCEPT
                           !.cols = @ \cup {"predicted_score"},
                           !.rows = [i \in 1..Len(data.rows) |->
                               [data.rows[i] EXCEPT !.predicted_score =
                                   Num(RoundTenth(predictions'[i]))]]]
                    /\ Goto("mp_rank")
    /\ UNCHANGED << now, variant, run, backendVars, callVars, mlFiles, playersCsv, model,
                    loadedColumns >>

\* STEP 5, 6 and the save: rank by score, print the report, write predictions.csv
MP_Rank ==
    /\ pc = "mp_rank"
    /\ predictionsCsv' =
          [exists |-> TRUE,
           rows |-> [k \in 1..Len(data.rows) |-> OutputRow(RankRows(data.rows)[k])]]
    /\ pc' = "done"
    /\ exitCode' = 0
    /\ UNCHANGED << now, variant, run, backendVars, callVars, mlModelPkl, mlColsPkl,
                    processedCsv, playersCsv, MlLocals, stdout, stderr >>

\* the ml script exits
MlFinish ==
    /\ variant = "ml"
    /\ pc = "done"
    /\ pc' = "idle"
    /\ run' = "none"
    /\ model' = NoModelFile
    /\ predictions' = <<>>
    /\ data' = NoTable
    /\ loadedColumns' = <<>>
    /\ X' = <<>>
    /\ UNCHANGED << now, variant, backendVars, callVars, mlFiles, playersCsv, outVars >>

\* ----------------------------------------- calls of the feature functions
CallGoalsPer90 ==
    /\ pc = "c_goals"
    /\ resGoals' = calculate_goals_per_90(Num(argCount), Num(argMinutes))
    /\ pc' = "c_assists"
    /\ UNCHANGED << now, variant, run, backendVars, mlVars, model, predictions, outVars,
                    argCount, argMinutes, argLeague, resAssists, resWeight >>

CallAssistsPer90 ==
    /\ pc = "c_assists"
    /\ resAssists' = calculate_assists_per_90(Num(argCount), Num(argMinutes))
    /\ pc' = "c_league"
    /\ UNCHANGED << now, variant, run, backendVars, mlVars, model, predictions, outVars,
                    argCount, argMinutes, argLeague, resGoals, resWeight >>

CallLeagueWeight ==
    /\ pc = "c_league"
    /\ resWeight' = get_league_weight(argLeague)
    /\ pc' = "done"
    /\ UNCHANGED << now, variant, run, backendVars, mlVars, model, predictions, outVars,
                    argCount, argMinutes, argLeague, resGoals, resAssists >>

Next ==
    \/ \E c \in CsvFiles : StartTrain(c)
    \/ T_Load
    \/ T_Fit
    \/ T_SaveModel
    \/ T_SaveMeta
    \/ \E doc \in StdinDocs : StartPredict(doc)
    \/ P_CheckModel
    \/ P_CheckMeta
    \/ P_LoadModel
    \/ P_LoadMeta
    \/ P_ReadInput
    \/ P_Players
    \/ P_Row
    \/ P_Predict
    \/ P_Output
    \/ Finish
    \/ Tick
    \/ Forget
    \/ StartMlTrain
    \/ MT_Load
    \/ MT_Features
    \/ MT_Select
    \/ MT_Fit
    \/ MT_SaveModel
    \/ MT_SaveColumns
    \/ StartMlPredict
    \/ MP_LoadModel
    \/ MP_LoadColumns
    \/ MP_LoadData
    \/ MP_Features
    \/ MP_Predict
    \/ MP_Rank
    \/ MlFinish
    \/ CallGoalsPer90
    \/ CallAssistsPer90
    \/ CallLeagueWeight

Spec == Init /\ [][Next]_vars

\* ================================================================ claims
\* both artifacts are there, as a run of the trainer leaves them
TrainedFiles(files) ==
    /\ files.modelFile.kind = "fitted"
    /\ \E c \in CsvFiles, t \in 0..MaxClock :
          files.metaFile = [exists |-> TRUE, toks |-> JsonDump(MetaDict(FEATURES, c, t))]

PredictRun == variant = "backend" /\ run = "predict"
PredictDone == PredictRun /\ pc = "done"

\* C1: in the service-facing predictor a missing model file, a missing meta
\* file and (the artifacts being in place) a standard input that is not JSON
\* each end the run with an {"error": ...} document, a nonzero exit code and
\* no results; for input that is not JSON the message starts with
\* "Invalid JSON input: ".
C1_ErrorKindsReported ==
    PredictDone =>
        /\ (startFiles.modelFile.kind = "absent" \/ ~startFiles.metaFile.exists)
              => /\ stdout.kind = "error"
                 /\ Len(stdout.msg) >= 1
                 /\ stdout.results = <<>>
                 /\ stderr = ""
                 /\ exitCode > 0
        /\ (TrainedFiles(startFiles) /\ stdin.kind = "invalid")
              => /\ stdout.kind = "error"
                 /\ Len(stdout.msg) >= 1
                 /\ stdout.msg[1] = "Invalid JSON input: "
                 /\ stdout.results = <<>>
                 /\ stderr = ""
                 /\ exitCode > 0

C1_Witness ==
    /\ PredictDone
    /\ TrainedFiles(startFiles)
    /\ stdin.kind = "invalid"
    /\ stdout.kind = "error"
    /\ exitCode = 1

EmptyPlayersDoc == Doc("object", TRUE, "list", 0, <<>>)

\* C2: with both artifacts in place and {"players": []} on standard input the
\* run prints {"error": "No players provided in input"} and exits nonzero; it
\* never reaches the row loop or the model, and prints no results.
C2_EmptyPlayersRejected ==
    (PredictRun /\ TrainedFiles(startFiles) /\ stdin = EmptyPlayersDoc) =>
        /\ pc \notin {"p_rows", "p_predict", "p_output"}
        /\ predictions = <<>>
        /\ stdout.results = <<>>
        /\ pc = "done" =>
              /\ stdout = ErrorOut(<< "No players provided in input" >>)
              /\ exitCode > 0

C2_Witness ==
    /\ PredictDone
    /\ TrainedFiles(startFiles)
    /\ stdin = EmptyPlayersDoc
    /\ stdout.kind = "error"
    /\ exitCode = 1

\* C3: every run of the service-facing predictor ends either with a results
\* document and exit code 0 or with an error document and a nonzero exit
\* code; no failure ends in a raw crash.
C3_NoRawCrash ==
    PredictDone =>
        \/ stdout.kind = "results" /\ exitCode = 0
        \/ stdout.kind = "error" /\ exitCode > 0

ExpectedId(player) ==
    IF "id" \in DOMAIN player.fields THEN player.fields["id"] ELSE JNum(0)

\* C4: a batch fully succeeds or fully fails.  Nothing is printed before the
\* run ends; a run that exits 0 printed one result per input player, in input
\* order, with that player's id (0 when it has none) and the score of that
\* player's row; a run that exits nonzero printed no result at all.
C4_AllOrNothing ==
    PredictRun =>
        /\ pc # "done" => stdout = NoOut
        /\ (pc = "done" /\ exitCode = 0) =>
              /\ stdout.kind = "results"
              /\ stdin.kind = "object"
              /\ Len(stdout.results) = Len(stdin.players)
              /\ \A i \in 1..Len(stdin.players) :
                    /\ stdout.results[i].id = ExpectedId(stdin.players[i])
                    /\ stdout.results[i].ml_score
                          = RoundScore(TreeScore(startFiles.modelFile, df[i]))
        /\ (pc = "done" /\ exitCode # 0) => stdout.results = <<>>

C4_Witness ==
    /\ PredictDone
    /\ exitCode = 0
    /\ Len(stdout.results) = 2
    /\ "id" \notin DOMAIN stdin.players[1].fields
    /\ "id" \in DOMAIN stdin.players[2].fields

\* the number a JSON value stands for
NumberOf(v) == IF v.t = "str" THEN DecimalText[v.s] ELSE v.n

\* C5: every row of the frame given to the model has exactly the entries of
\* the features list of meta.json, in that order: the record's value for the
\* feature (as a number), 0 when the record lacks it; the record's other keys
\* play no part.
C5_VectorFollowsMetaFeatures ==
    (PredictRun /\ df # <<>>) =>
        LET feats == JsonList(startFiles.metaFile.toks, "features")
        IN  /\ Len(df) = Len(stdin.players)
            /\ \A i \in 1..Len(df) :
                  /\ Len(df[i]) = Len(feats)
                  /\ \A j \in 1..Len(feats) :
                        df[i][j] = IF feats[j] \in DOMAIN stdin.players[i].fields
                                   THEN NumberOf(stdin.players[i].fields[feats[j]])
                                   ELSE 0

C5_Witness ==
    /\ PredictRun
    /\ Len(df) = 2
    /\ "nationality" \in DOMAIN stdin.players[1].fields
    /\ df[1][1] = 7
    /\ df[1][2] = 0
    /\ df[2][3] = 900

\* C8: two predictor runs on the same model file, the same meta file and the
\* same standard input print the same document and exit with the same code;
\* and a predictor run leaves both files as it found them.
C8_Deterministic ==
    /\ PredictRun =>
          /\ modelFile = startFiles.modelFile
          /\ metaFile = startFiles.metaFile
    /\ (PredictDone /\ lastRun.set /\ lastRun.files = startFiles /\ lastRun.stdin = stdin)
          => /\ stdout = lastRun.stdout
             /\ exitCode = lastRun.exitCode

C8_Witness ==
    /\ PredictDone
    /\ lastRun.set
    /\ lastRun.files = startFiles
    /\ lastRun.stdin = stdin
    /\ stdout.kind = "results"
    /\ now > 0

\* ---------------------------------------------------------------- ml claims
MlRun(kind) == variant = "ml" /\ run = kind
\* model.pkl and feature_columns.pkl are there, as train.py leaves them
MlArtifacts == mlModelPkl.kind = "fitted" /\ mlColsPkl.exists

\* the raw columns the deriver indexes, and those predict.py needs in all
DeriverColumns == {"goals", "assists", "minutes_played", "league"}
RequiredRawColumns == DeriverColumns \cup {"xG", "xA"}
RawNumbers == << "goals", "assists", "xG", "xA", "minutes_played" >>

\* a record of players.csv with an empty cell in a numeric raw column
HasEmptyCell(row) == \E j \in 1..Len(RawNumbers) : ColumnValue(row, RawNumbers[j]).nan
AnyEmptyCell(table) == \E i \in 1..Len(table.rows) : HasEmptyCell(table.rows[i])

\* C6 as stated: a standalone predictor run over a players.csv that lacks a
\* required raw column (artifacts in place, no empty cell) treats the field as
\* zero and does not fail.
C6_MissingFieldTreatedAsZero ==
    (/\ MlRun("m_predict")
     /\ pc = "done"
     /\ MlArtifacts
     /\ playersCsv.exists
     /\ ~AnyEmptyCell(playersCsv)
     /\ ~(RequiredRawColumns \subseteq playersCsv.cols))
        => /\ exitCode = 0
           /\ stderr = ""
           /\ predictionsCsv.exists

\* C6 (amended): the deriver and the standalone predictor reject a non-empty
\* table that lacks a required raw column: a run of train.py or predict.py
\* over a table without goals, assists, minutes_played or league ends with an
\* unhandled KeyError raised in the deriver, a predict.py run over a table
\* without xG or xA ends with an unhandled KeyError at the feature selection,
\* and a predict.py run over a table with an empty numeric cell ends with the
\* model's ValueError; none of them writes predictions.csv.  No missing field
\* is replaced by zero: the only zero default is a rate of 0 for a record whose
\* minutes_played is 0, and with every required column and cell present the
\* run succeeds.
C6_MissingFieldRejected ==
    (variant = "ml" /\ pc = "done" /\ playersCsv.exists) =>
        /\ (run = "m_train" \/ (run = "m_predict" /\ MlArtifacts))
              => (~(DeriverColumns \subseteq playersCsv.cols)
                    => /\ stderr = "KeyError"
                       /\ exitCode = 1
                       /\ "league_weight" \notin data.cols)
        /\ (run = "m_predict" /\ MlArtifacts) =>
              /\ ~(RequiredRawColumns \subseteq playersCsv.cols)
                    => /\ stderr = "KeyError"
                       /\ exitCode = 1
                       /\ ~predictionsCsv.exists
              /\ (RequiredRawColumns \subseteq playersCsv.cols /\ AnyEmptyCell(playersCsv))
                    => /\ stderr = "ValueError"
                       /\ exitCode = 1
                       /\ ~predictionsCsv.exists
              /\ (RequiredRawColumns \subseteq playersCsv.cols /\ ~AnyEmptyCell(playersCsv))
                    => /\ exitCode = 0
                       /\ stderr = ""
                       /\ predictionsCsv.exists
                       /\ Len(predictionsCsv.rows) = Len(playersCsv.rows)
                       /\ \A i \in 1..Len(data.rows) :
                             data.rows[i].minutes_played.v = 0
                                => /\ data.rows[i].goals_per_90 = Num(0)
                                   /\ data.rows[i].assists_per_90 = Num(0)

C6_Witness ==
    /\ MlRun("m_predict")
    /\ pc = "done"
    /\ MlArtifacts
    /\ playersCsv.exists
    /\ "minutes_played" \notin playersCsv.cols
    /\ ~AnyEmptyCell(playersCsv)
    /\ stderr = "KeyError"
    /\ exitCode = 1

\* C7: after a completed trainer run the predictor of the same variant loads
\* the feature list the trainer fitted the model on and persisted, the same
\* names in the same order, and every vector it builds has one entry per name
\* of that list, in that order (meta.json "features" in the backend variant,
\* feature_columns.pkl in the ml variant).
C7_FeatureListRoundTrip ==
    /\ (PredictRun /\ TrainedFiles(startFiles) /\ pc \notin {"p_checkModel", "p_checkMeta",
                                                             "p_loadModel", "p_loadMeta"})
          => /\ predFEATURES = FEATURES
             /\ predFEATURES = startFiles.modelFile.features
             /\ \A i \in 1..Len(rows) : DOMAIN rows[i] = {FEATURES[j] : j \in 1..Len(FEATURES)}
             /\ \A i \in 1..Len(df) :
                   /\ Len(df[i]) = Len(FEATURES)
                   /\ \A j \in 1..Len(FEATURES) : df[i][j] = rows[i][FEATURES[j]].val
    /\ (MlRun("m_predict") /\ MlArtifacts /\ pc \notin {"mp_loadModel", "mp_loadColumns"})
          => /\ loadedColumns = feature_columns
             /\ loadedColumns = mlModelPkl.features
             /\ \A i \in 1..Len(X) :
                   /\ Len(X[i]) = Len(feature_columns)
                   /\ \A j \in 1..Len(feature_columns) :
                         X[i][j] = ColumnValue(data.rows[i], feature_columns[j])

C7_Witness ==
    /\ PredictDone
    /\ TrainedFiles(startFiles)
    /\ predFEATURES = FEATURES
    /\ Len(df) >= 1
    /\ Len(df[1]) = Len(FEATURES)
    /\ exitCode = 0

\* ---------------------------------------------- feature-function claims
CallsDone == variant = "calls" /\ pc = "done"

\* C9: with minutes_played 0 the rate is 0 and nothing is raised; otherwise
\* nothing is raised and the result is a value of two decimals nearest to
\* (count / minutes_played) * 90 (in hundredths: within half a hundredth of
\* 9000 * count / minutes_played); 10 goals in 900 minutes give 1.0; and the
\* assists function returns what the goals function returns.
C9_RatePer90 ==
    CallsDone =>
        /\ resGoals.err = ""
        /\ ~resGoals.nan
        /\ argMinutes = 0 => resGoals.v = 0
        /\ argMinutes # 0 =>
              /\ 2 * (resGoals.v * argMinutes - 9000 * argCount) <= argMinutes
              /\ 2 * (9000 * argCount - resGoals.v * argMinutes) <= argMinutes
        /\ (argCount = 10 /\ argMinutes = 900) => resGoals.v = 100
        /\ resAssists = resGoals

C9_Witness ==
    /\ CallsDone
    /\ argCount = 7
    /\ argMinutes = 0
    /\ resGoals = Returned(Num(0))
    /\ resAssists = Returned(Num(0))

\* C10: a league name of the table gets the table's weight, any other name
\* gets 0.8, and every weight returned lies between 0.7 and 1.0.
C10_LeagueWeight ==
    CallsDone =>
        /\ argLeague \in DOMAIN LEAGUE_WEIGHTS => resWeight = LEAGUE_WEIGHTS[argLeague]
        /\ argLeague \notin DOMAIN LEAGUE_WEIGHTS => resWeight = 80
        /\ resWeight >= 70
        /\ resWeight <= 100

C10_Witness ==
    /\ CallsDone
    /\ argLeague = "premier league"
    /\ resWeight = 80

\* ------------------------------------------------------- trainer side effects
\* a step taken by a running trainer
BackendTrainStep == variant = "backend" /\ run = "train" /\ pc # "done"
MlTrainStep == MlRun("m_train") /\ pc # "done"

\* C11 as stated: a trainer run of either variant writes the model artifact
\* and the metadata record, whatever was at their paths, and creates or
\* changes no other file.
C11_ExactlyTwoWrites ==
    [][(BackendTrainStep \/ MlTrainStep) =>
          /\ playersCsv' = playersCsv
          /\ processedCsv' = processedCsv
          /\ predictionsCsv' = predictionsCsv
          /\ BackendTrainStep =>
                /\ UNCHANGED << mlModelPkl, mlColsPkl >>
                /\ (pc' = "done" /\ exitCode' = 0)
                      => (modelFile' = model' /\ metaFile'.exists)
          /\ MlTrainStep =>
                /\ UNCHANGED << modelFile, metaFile >>
                /\ (pc' = "done" /\ exitCode' = 0)
                      => (mlModelPkl' = model' /\ mlColsPkl'.exists)]_vars

\* C11 (amended): a completed run of train_ballondor.py has written exactly
\* two files, the model artifact and meta.json, each replacing whatever was at
\* its path; a completed run of ml/train.py has written three: the processed
\* table players_with_features.csv, then model.pkl and feature_columns.pkl,
\* each replacing whatever was at its path.  No trainer step changes any other
\* file, the artifacts are written only by the two save steps, and a run that
\* fails leaves the artifacts as it found them (an ml run that fails after the
\* deriver has still written the processed table).
C11_TrainerWrites ==
    [][/\ BackendTrainStep =>
             /\ UNCHANGED << playersCsv, mlFiles >>
             /\ pc # "t_saveModel" => modelFile' = modelFile
             /\ pc # "t_saveMeta" => metaFile' = metaFile
             /\ (pc' = "done" /\ exitCode' = 0) =>
                   /\ modelFile' = model'
                   /\ modelFile'.kind = "fitted"
                   /\ metaFile'.exists
                   /\ JsonValid(metaFile'.toks)
                   /\ JsonList(metaFile'.toks, "features") = FEATURES
             /\ (pc' = "done" /\ exitCode' # 0) =>
                   /\ modelFile' = startFiles.modelFile
                   /\ metaFile' = startFiles.metaFile
       /\ MlTrainStep =>
             /\ UNCHANGED << playersCsv, predictionsCsv, modelFile, metaFile >>
             /\ pc # "mt_features" => processedCsv' = processedCsv
             /\ pc # "mt_saveModel" => mlModelPkl' = mlModelPkl
             /\ pc # "mt_saveColumns" => mlColsPkl' = mlColsPkl
             /\ (pc' = "done" /\ exitCode' # 0) => pc \notin {"mt_saveModel", "mt_saveColumns"}
             /\ (pc' = "done" /\ exitCode' = 0) =>
                   /\ processedCsv'.exists
                   /\ processedCsv' = data'
                   /\ mlModelPkl' = model'
                   /\ mlModelPkl'.kind = "fitted"
                   /\ mlColsPkl'.exists
                   /\ PickleLoad(mlColsPkl'.ops) = feature_columns]_vars

C11_Witness ==
    /\ variant = "backend"
    /\ run = "train"
    /\ pc = "done"
    /\ exitCode = 0
    /\ startFiles.modelFile.kind = "garbage"
    /\ startFiles.metaFile.exists
    /\ modelFile.kind = "fitted"
    /\ JsonValid(metaFile.toks)

\* --------------------------------------------------- the deriver's effects
\* the call data = add_features_to_dataframe(data) of train.py or predict.py
DeriverCall == variant = "ml" /\ pc \in {"mt_features", "mp_features"}
DerivedColumns == {"goals_per_90", "assists_per_90", "league_weight"}

\* the raw columns of a row
RawFields(row) ==
    [name |-> row.name, team |-> row.team, league |-> row.league, goals |-> row.goals,
     assists |-> row.assists, xG |-> row.xG, xA |-> row.xA,
     minutes_played |-> row.minutes_played, ballon_dor_score |-> row.ballon_dor_score]

SameRawRows(before, after) ==
    /\ Len(after.rows) = Len(before.rows)
    /\ \A i \in 1..Len(before.rows) : RawFields(after.rows[i]) = RawFields(before.rows[i])

\* C12 as stated: the call returns the record augmented with goals_per_90,
\* assists_per_90 and league_weight, raw columns as they were, and leaves the
\* table the caller passed unchanged (seen where the call raises and the
\* caller's name is not rebound: the table is as it was before the call).
C12_DeriverIsPure ==
    [][DeriverCall =>
          /\ SameRawRows(data, data')
          /\ pc' # "done" => data'.cols = data.cols \cup DerivedColumns
          /\ pc' = "done" => data' = data]_vars

\* C12 (amended): the deriver sets goals_per_90, assists_per_90 and
\* league_weight, in that order, on the table the caller passed and returns
\* that same table: the raw columns keep their values and no row is added or
\* dropped, each derived cell is the value of its function on the row, and no
\* file other than the caller's own is written.  The caller's table is changed
\* by the call; when the call raises KeyError for a missing column, the
\* columns set before the failing statement stay on the caller's table.
C12_DeriverAugmentsInPlace ==
    [][DeriverCall =>
          /\ SameRawRows(data, data')
          /\ UNCHANGED << playersCsv, mlModelPkl, mlColsPkl, predictionsCsv >>
          /\ pc = "mp_features" => processedCsv' = processedCsv
          /\ pc' # "done" =>
                /\ data'.cols = data.cols \cup DerivedColumns
                /\ data' # data
                /\ \A i \in 1..Len(data.rows) :
                      /\ data'.rows[i].goals_per_90
                            = Cell(calculate_goals_per_90(data.rows[i].goals,
                                                          data.rows[i].minutes_played))
                      /\ data'.rows[i].assists_per_90
                            = Cell(calculate_assists_per_90(data.rows[i].assists,
                                                            data.rows[i].minutes_played))
                      /\ data'.rows[i].league_weight
                            = Num(get_league_weight(data.rows[i].league))
          /\ pc' = "done" =>
                /\ stderr' = "KeyError"
                /\ "league_weight" \notin data'.cols
                /\ "goals_per_90" \in data'.cols
                      <=> {"goals", "minutes_played"} \subseteq data.cols
                /\ "assists_per_90" \in data'.cols
                      <=> {"goals", "minutes_played", "assists"} \subseteq data.cols
                /\ data'.cols \ DerivedColumns = data.cols]_vars

C12_Witness ==
    /\ MlRun("m_predict")
    /\ pc = "done"
    /\ stderr = "KeyError"
    /\ "league" \notin playersCsv.cols
    /\ data.cols = playersCsv.cols \cup {"goals_per_90", "assists_per_90"}
    /\ data.rows[1].goals_per_90 = Num(100)

====
